---- MODULE Spec2Model ----
(***************************************************************************)
(* A model of refgene_parser/_refgene.py: the Interval hierarchy, the      *)
(* RefGene line parser, the coding-interval derivation of a Transcript and *)
(* the RefGene reader with its shared line cursor.                         *)
(*                                                                         *)
(* Text is modelled as a sequence of one-character strings, so that        *)
(* strip(), split() and int() are computed character by character.         *)
(***************************************************************************)
EXTENDS Integers, Sequences, FiniteSets, TLC

VARIABLES
    fixture,    \* the structured record the test line was written from
    line,       \* the raw text line handed to the parser
    pc,         \* position of the parsing scenario
    parsed,     \* outcome of RefGene._line_to_transcript
    coding,     \* outcome of Transcript.coding_intervals
    clen,       \* outcome of Transcript.coding_length
    obj,        \* an Interval (or subtype) instance: its __dict__
    call,       \* the constructor call that built obj
    res,        \* the result of the last get / __getitem__ on obj
    manifest,   \* the structured records the source file was written from
    source,     \* the lines of the file at RefGene.path
    handle,     \* RefGene._handle: <<>> is None, <<n>> is open with n lines read
    session,    \* how many line-reading sessions were opened so far
    trav        \* the traversals: for loops and lookup generators

vars == <<fixture, line, pc, parsed, coding, clen, obj, call, res,
          manifest, source, handle, session, trav>>

parserVars == <<fixture, line, parsed, coding, clen>>
intervalVars == <<obj, call, res>>
readerVars == <<manifest, source, handle, session, trav>>

-----------------------------------------------------------------------------
(* Bounds of the model *)

MaxCoord == 3
MaxExons == 2
MaxTokExons == 2
MaxLines == 3

(* Program constants *)

DefaultScore == 500
NumFields == 16

-----------------------------------------------------------------------------
(* Text *)

Digits == {"0", "1", "2", "3", "4", "5", "6", "7", "8", "9"}

DigitVal == [c \in Digits |->
    CASE c = "0" -> 0 [] c = "1" -> 1 [] c = "2" -> 2 [] c = "3" -> 3
      [] c = "4" -> 4 [] c = "5" -> 5 [] c = "6" -> 6 [] c = "7" -> 7
      [] c = "8" -> 8 [] c = "9" -> 9]

Whitespace == {" ", "\t", "\n"}

RECURSIVE LStrip(_)
LStrip(s) ==
    IF s # <<>> /\ Head(s) \in Whitespace THEN LStrip(Tail(s)) ELSE s

RECURSIVE RStrip(_)
RStrip(s) ==
    IF s # <<>> /\ s[Len(s)] \in Whitespace
    THEN RStrip(SubSeq(s, 1, Len(s) - 1))
    ELSE s

\* str.strip()
Strip(s) == RStrip(LStrip(s))

\* str.split(sep): one more piece than there are separators
RECURSIVE SplitFrom(_, _, _)
SplitFrom(s, sep, cur) ==
    IF s = <<>> THEN <<cur>>
    ELSE IF Head(s) = sep THEN <<cur>> \o SplitFrom(Tail(s), sep, <<>>)
    ELSE SplitFrom(Tail(s), sep, Append(cur, Head(s)))

Split(s, sep) == SplitFrom(s, sep, <<>>)

\* int(token): optional sign, then one or more digits; anything else raises
IsDigits(s) == s # <<>> /\ \A i \in 1..Len(s) : s[i] \in Digits

Unsigned(s) == IF s # <<>> /\ Head(s) \in {"-", "+"} THEN Tail(s) ELSE s

IsInt(tok) == IsDigits(Unsigned(Strip(tok)))

RECURSIVE DigitsVal(_)
DigitsVal(s) ==
    IF s = <<>> THEN 0
    ELSE 10 * DigitsVal(SubSeq(s, 1, Len(s) - 1)) + DigitVal[s[Len(s)]]

IntOf(tok) ==
    LET t == Strip(tok)
    IN  IF Head(t) = "-" THEN 0 - DigitsVal(Tail(t)) ELSE DigitsVal(Unsigned(t))

\* case folding of one character (re.IGNORECASE)
Fold(c) ==
    CASE c = "N" -> "n" [] c = "M" -> "m" [] c = "R" -> "r"
      [] c = "A" -> "a" [] c = "B" -> "b" [] OTHER -> c


-----------------------------------------------------------------------------
(* Outcomes: a returned value, or a raised exception *)

Ok(v) == [ok |-> TRUE, err |-> "", val |-> v]
Raise(e) == [ok |-> FALSE, err |-> e, val |-> <<>>]

NoValue == Raise("not run")

Min(a, b) == IF a <= b THEN a ELSE b
Max(a, b) == IF a >= b THEN a ELSE b

-----------------------------------------------------------------------------
(* Interval and its subtypes, as built by the parser *)

Strands == {".", "+", "-"}

\* Interval.__init__: the assertions on the coordinates and the strand
IntervalValid(start, end, strand) == end - start > 0 /\ strand \in Strands

\* Interval.__len__
IntervalLen(iv) == iv.end - iv.start

\* Exon.__init__: frame_offset must be an integer of range(-1, 3)
FrameValid(frame_offset) == frame_offset \in -1..2

\* Exon.__init__: "not isinstance(rank, int) and rank > 0"; every rank of the
\* model is an integer, so the test never rejects
RankRejected(rank) == ~(rank \in Int) /\ rank > 0

\* Exon.__init__; frame_offset None is <<>>, an integer f is <<f>>
NewExon(chrom, start, end, strand, rank, frame_offset) ==
    IF ~IntervalValid(start, end, strand) THEN Raise("AssertionError")
    ELSE IF ~FrameValid(frame_offset) THEN Raise("ValueError")
    ELSE IF RankRejected(rank) THEN Raise("ValueError")
    ELSE Ok([chrom |-> chrom, start |-> start, end |-> end, strand |-> strand,
             name |-> <<".">>, score |-> DefaultScore, rank |-> rank,
             frame_offset |-> IF frame_offset = -1 THEN <<>>
                              ELSE <<frame_offset>>])

\* Exon.is_UTR
IsUTR(exon) == exon.frame_offset = <<>>

\* CodingRegion.__init__
NewCodingRegion(chrom, start, end, strand) ==
    IF ~IntervalValid(start, end, strand) THEN Raise("AssertionError")
    ELSE Ok([chrom |-> chrom, start |-> start, end |-> end, strand |-> strand,
             name |-> <<".">>, score |-> DefaultScore])

\* Transcript.__init__; the score argument is not passed on to Interval
NewTranscript(chrom, start, end, strand, name, accession, cds, status) ==
    IF ~IntervalValid(start, end, strand) THEN Raise("AssertionError")
    ELSE Ok([chrom |-> chrom, start |-> start, end |-> end, strand |-> strand,
             name |-> name, score |-> DefaultScore, accession |-> accession,
             transcript_start |-> start, transcript_stop |-> end,
             coding_start |-> cds[1], coding_end |-> cds[2],
             coding_start_status |-> status[1],
             coding_end_status |-> status[2],
             exons |-> <<>>])

-----------------------------------------------------------------------------
(* RefGene._line_to_transcript *)

\* a slip: ranks ascending in file order whatever the strand
ExonRanksAscending(strand, n) ==
    IF n <= 0 THEN <<>> ELSE [i \in 1..n |-> i]

\* range(int(num_exons), 0, -1) for '-', range(1, int(num_exons) + 1)
\* otherwise
ExonRanks(strand, n) ==
    IF n <= 0 THEN <<>>
    ELSE IF strand = <<"-">> THEN [i \in 1..n |-> n + 1 - i]
    ELSE [i \in 1..n |-> i]

\* zip(exon_starts, exon_ends, exon_frames, exon_ranks) stops at the
\* shortest of the four
ZipLen(starts, ends, frames, ranks) ==
    Min(Min(Len(starts), Len(ends)), Min(Len(frames), Len(ranks)))

\* a slip: only the start token is tested
HasEmptyStartOnly(start, end, frame) == start = <<>>

\* the test that skips a triplet
HasEmpty(start, end, frame) == start = <<>> \/ end = <<>> \/ frame = <<>>

\* the text of the one-character strand column, as Interval compares it
StrandOf(tok) == IF Len(tok) = 1 THEN tok[1] ELSE "?"

\* the body of the loop over the zipped columns, from position i on
RECURSIVE ExonLoop(_, _, _, _, _, _, _, _, _)
ExonLoop(chrom, strand, starts, ends, frames, ranks, n, i, exons) ==
    IF i > n THEN Ok(exons)
    ELSE IF HasEmpty(starts[i], ends[i], frames[i])
    THEN ExonLoop(chrom, strand, starts, ends, frames, ranks, n, i + 1, exons)
    ELSE IF ~(IsInt(starts[i]) /\ IsInt(ends[i]) /\ IsInt(frames[i]))
    THEN Raise("ValueError")
    ELSE LET e == NewExon(chrom, IntOf(starts[i]), IntOf(ends[i]),
                          StrandOf(strand), ranks[i], IntOf(frames[i]))
         IN  IF ~e.ok THEN e
             ELSE ExonLoop(chrom, strand, starts, ends, frames, ranks, n,
                           i + 1, Append(exons, e.val))

LineToTranscript(f) ==
    IF Len(f) # NumFields THEN Raise("ValueError")
    ELSE IF ~(IsInt(f[5]) /\ IsInt(f[6]) /\ IsInt(f[7]) /\ IsInt(f[8]))
    THEN Raise("ValueError")
    ELSE LET t == NewTranscript(f[3], IntOf(f[5]), IntOf(f[6]),
                                StrandOf(f[4]), f[13], f[2],
                                <<IntOf(f[7]), IntOf(f[8])>>,
                                <<f[14], f[15]>>)
         IN  IF ~t.ok THEN t
             ELSE IF ~IsInt(f[9]) THEN Raise("ValueError")
             ELSE LET starts == Split(f[10], ",")
                      ends == Split(f[11], ",")
                      frames == Split(f[16], ",")
                      ranks == ExonRanks(f[4], IntOf(f[9]))
                      loop == ExonLoop(f[3], f[4], starts, ends, frames,
                                       ranks,
                                       ZipLen(starts, ends, frames, ranks),
                                       1, <<>>)
                  IN  IF ~loop.ok THEN loop
                      ELSE Ok([t.val EXCEPT !.exons = loop.val])

\* RefGene.__next__, after the read: decode, strip, split on tab, parse
ParseLine(raw) == LineToTranscript(Split(Strip(raw), "\t"))

-----------------------------------------------------------------------------
(* Transcript.exons, coding_intervals, coding_length *)

\* Interval.__lt__
Lt(a, b) == a.chrom = b.chrom /\ a.start < b.start

\* sorted() places each element after the last one it is not less than
RECURSIVE Insert(_, _)
Insert(sorted, x) ==
    IF sorted = <<>> THEN <<x>>
    ELSE IF Lt(x, sorted[Len(sorted)])
    THEN Append(Insert(SubSeq(sorted, 1, Len(sorted) - 1), x),
                sorted[Len(sorted)])
    ELSE Append(sorted, x)

RECURSIVE SortedFrom(_, _)
SortedFrom(rest, acc) ==
    IF rest = <<>> THEN acc ELSE SortedFrom(Tail(rest), Insert(acc, Head(rest)))

\* Transcript.exons: sorted(self._exons)
Exons(t) == SortedFrom(t.exons, <<>>)

\* the test of coding_intervals that passes over an exon
Skipped(t, exon) ==
    IsUTR(exon) \/ t.coding_start > exon.end \/ t.coding_end < exon.start

\* the three branches that choose the bounds of the region
RegionBounds(t, exon) ==
    IF t.coding_start \in exon.start..exon.end
    THEN <<t.coding_start, exon.end>>
    ELSE IF t.coding_end \in exon.start..exon.end
    THEN <<exon.start, t.coding_end>>
    ELSE <<exon.start, exon.end>>

RECURSIVE CodingLoop(_, _, _)
CodingLoop(t, exons, intervals) ==
    IF exons = <<>> THEN Ok(intervals)
    ELSE LET exon == Head(exons)
         IN  IF Skipped(t, exon) THEN CodingLoop(t, Tail(exons), intervals)
             ELSE LET b == RegionBounds(t, exon)
                      cds == NewCodingRegion(exon.chrom, b[1], b[2],
                                             exon.strand)
                  IN  IF ~cds.ok THEN cds
                      ELSE CodingLoop(t, Tail(exons),
                               Append(intervals,
                                      [region |-> cds.val, exon |-> exon]))

\* Transcript.coding_intervals: the regions, each with its source exon
CodingIntervals(t) == CodingLoop(t, Exons(t), <<>>)

RECURSIVE SumLen(_)
SumLen(cs) ==
    IF cs = <<>> THEN 0 ELSE IntervalLen(Head(cs).region) + SumLen(Tail(cs))

\* Transcript.coding_length
CodingLength(t) ==
    LET c == CodingIntervals(t) IN IF c.ok THEN Ok(SumLen(c.val)) ELSE c

-----------------------------------------------------------------------------
(* Test lines: a structured record and the text written from it *)

\* the decimal text of an integer of -9..99
DigitChar == <<"0", "1", "2", "3", "4", "5", "6", "7", "8", "9">>

Dec(n) ==
    LET a == IF n < 0 THEN 0 - n ELSE n
        body == IF a < 10 THEN <<DigitChar[a + 1]>>
                ELSE <<DigitChar[(a \div 10) + 1], DigitChar[(a % 10) + 1]>>
    IN  IF n < 0 THEN <<"-">> \o body ELSE body

RECURSIVE Join(_, _)
Join(parts, sep) ==
    IF parts = <<>> THEN <<>>
    ELSE IF Len(parts) = 1 THEN parts[1]
    ELSE parts[1] \o <<sep>> \o Join(Tail(parts), sep)

Column(fx, k) ==
    Join([i \in 1..Len(fx.trip) |-> fx.trip[i][k]], ",")
        \o (IF fx.trail THEN <<",">> ELSE <<>>)

\* the 16 columns of a RefGene line (fewer or more when fx.nf says so)
Columns(fx) ==
    LET all == << <<"0">>, fx.acc, <<"c", "1">>, fx.strand, fx.tx[1], fx.tx[2],
                  fx.cds[1], fx.cds[2], fx.count, Column(fx, 1),
                  Column(fx, 2), <<"0">>, fx.name, <<"c">>, <<"c">>,
                  Column(fx, 3), <<"x">> >>
    IN  SubSeq(all, 1, fx.nf)

Render(fx) == Join(Columns(fx), "\t") \o <<"\n">>

SeqsUpTo(S, n) == UNION {[1..k -> S] : k \in 0..n}

NM1 == <<"N", "M", "1">>
NM12 == <<"N", "M", "1", "2">>
nm1 == <<"n", "m", "1">>
NR1 == <<"N", "R", "1">>
GeneA == <<"A">>
GeneAB == <<"A", "B">>
genea == <<"a">>
GeneB == <<"B">>

\* lines that vary the geometry: well-formed text, free coordinates
GeomTriplets(maxCoord) ==
    {<<Dec(s), Dec(e), Dec(f)>> :
        s \in 0..maxCoord, e \in 0..maxCoord, f \in {-1, 0}}

GeomFixture(ts, te, cs, ce, tr) ==
    [nf |-> NumFields, acc |-> NM1, name |-> GeneA, strand |-> <<"+">>,
     tx |-> <<Dec(ts), Dec(te)>>, cds |-> <<Dec(cs), Dec(ce)>>,
     count |-> Dec(Len(tr)), trip |-> tr, trail |-> FALSE]

\* lines that vary the tokens: exon i is listed as [2i-2, 2i-1), in
\* increasing genomic order, and each of its tokens may be empty
TokTriplets(i) ==
    {<<st, en, fr>> :
        st \in {Dec(2 * i - 2), <<>>}, en \in {Dec(2 * i - 1), <<>>},
        fr \in {Dec(0), Dec(-1), <<>>, Dec(3)}}

RECURSIVE TokListsOf(_)
TokListsOf(k) ==
    IF k = 0 THEN {<<>>}
    ELSE {Append(l, t) : l \in TokListsOf(k - 1), t \in TokTriplets(k)}

TokShapes(k) ==
    {<<sd, k, tl>> : sd \in {"+", "-", "."}, tl \in BOOLEAN}
        \cup {<<"-", k + 1, FALSE>>}
        \cup (IF k > 0 THEN {<<"-", k - 1, FALSE>>} ELSE {})

TokFixture(maxExons, tr, sh) ==
    [nf |-> NumFields, acc |-> NM1, name |-> GeneA, strand |-> <<sh[1]>>,
     tx |-> <<Dec(0), Dec(2 * maxExons + 2)>>,
     cds |-> <<Dec(0), Dec(2 * maxExons + 2)>>,
     count |-> Dec(sh[2]), trip |-> tr, trail |-> sh[3]]

\* lines that vary the header: the number of columns, the strand, the
\* transcript range, the exon count, and one exon that may be ill-formed
HdrFixtures ==
    {[nf |-> nf, acc |-> NM1, name |-> GeneA, strand |-> sd, tx |-> tx,
      cds |-> <<Dec(0), Dec(1)>>, count |-> ct, trip |-> <<tr>>,
      trail |-> FALSE] :
        nf \in {NumFields - 1, NumFields, NumFields + 1},
        sd \in {<<"+">>, <<"-">>, <<"x">>, <<>>},
        tx \in {<<Dec(0), Dec(4)>>, <<Dec(4), Dec(4)>>, <<<<>>, Dec(4)>>},
        ct \in {Dec(1), <<>>, <<"x">>},
        tr \in {<<Dec(0), Dec(1), Dec(0)>>, <<Dec(1), Dec(1), Dec(0)>>,
                <<<<"x">>, Dec(1), Dec(0)>>, <<<<>>, Dec(1), Dec(0)>>}}

-----------------------------------------------------------------------------
(* The parsing scenario: one line is parsed, then its coding intervals and *)
(* its coding length are read                                              *)

IdleInterval == obj = NoValue /\ call = <<>> /\ res = <<>>

IdleReader ==
    /\ manifest = <<>>
    /\ source = <<>>
    /\ handle = <<>>
    /\ session = 0
    /\ trav = <<>>

IdleParser ==
    /\ fixture = <<>>
    /\ line = <<>>
    /\ parsed = NoValue
    /\ coding = NoValue
    /\ clen = NoValue

InitLine(fx) ==
    /\ fixture = fx
    /\ line = Columns(fixture)
    /\ pc = "start"
    /\ parsed = NoValue
    /\ coding = NoValue
    /\ clen = NoValue
    /\ IdleInterval
    /\ IdleReader

\* RefGene._line_to_transcript(line)
Parse ==
    /\ pc = "start"
    /\ parsed' = LineToTranscript(line)
    /\ pc' = "parsed"
    /\ UNCHANGED <<fixture, line, coding, clen, intervalVars, readerVars>>

\* transcript.coding_intervals
AccessCodingIntervals ==
    /\ pc = "parsed"
    /\ parsed.ok
    /\ coding' = CodingIntervals(parsed.val)
    /\ pc' = "intervals"
    /\ UNCHANGED <<fixture, line, parsed, clen, intervalVars, readerVars>>

\* transcript.coding_length
AccessCodingLength ==
    /\ pc = "intervals"
    /\ clen' = CodingLength(parsed.val)
    /\ pc' = "length"
    /\ UNCHANGED <<fixture, line, parsed, coding, intervalVars, readerVars>>

NextParser == Parse \/ AccessCodingIntervals \/ AccessCodingLength

InitCoding ==
    \E ts \in 0..1, te \in 1..MaxCoord, cs \in 0..MaxCoord, ce \in 0..MaxCoord :
        \E tr \in SeqsUpTo({x \in GeomTriplets(MaxCoord) :
                                IntOf(x[1]) < IntOf(x[2])}, MaxExons) :
            InitLine(GeomFixture(ts, te, cs, ce, tr))

SpecCoding == InitCoding /\ [][NextParser]_vars

InitParser ==
    \/ \E k \in 0..MaxTokExons :
           \E tr \in TokListsOf(k), sh \in TokShapes(k) :
               InitLine(TokFixture(MaxTokExons, tr, sh))
    \/ \E fx \in HdrFixtures : InitLine(fx)

SpecParser == InitParser /\ [][Parse]_vars

-----------------------------------------------------------------------------
(* Interval.get and Interval.__getitem__ over the attribute dictionary     *)
(* Python values are tagged: <<"int", 7>>, <<"str", "x">>, <<"dict", d>>,  *)
(* and None is <<"None">>.                                                 *)

None == <<"None">>
IntV(n) == <<"int", n>>
StrV(x) == <<"str", x>>
DictV(d) == <<"dict", d>>

\* dict.update
Update(d, e) ==
    [k \in DOMAIN d \cup DOMAIN e |-> IF k \in DOMAIN e THEN e[k] ELSE d[k]]

\* dict.get
DictGet(d, k, default) == IF k \in DOMAIN d THEN d[k] ELSE default

Kinds == {"Interval", "AminoRegion", "CodingRegion", "Exon", "Transcript"}

\* the named parameters of each constructor besides chrom, start and end
Params(kind) ==
    CASE kind = "Exon" -> {"strand", "rank", "frame_offset", "name"}
      [] kind = "Transcript" ->
            {"strand", "name", "accession", "coding_start", "coding_end",
             "score", "coding_start_status", "coding_end_status"}
      [] OTHER -> {"strand", "name", "score"}

\* the value a parameter takes: the keyword given, or its default
Arg(kw, k, default) == DictGet(kw, k, default)

\* the keywords no parameter takes: the constructor's **metadata
Extra(kind, kw) == [k \in DOMAIN kw \ Params(kind) |-> kw[k]]

\* Interval.__init__(chrom, start, end, strand, name, score, **metadata)
IntervalInit(strand, name, score, metadata) ==
    IF \/ name[1] # "str"
       \/ score[1] # "int"
       \/ ~(strand[1] = "str" /\ strand[2] \in Strands)
    THEN Raise("AssertionError")
    ELSE Ok([k \in {"chrom", "start", "end", "strand", "name", "score",
                    "metadata"} |->
                CASE k = "chrom" -> StrV("c")
                  [] k = "start" -> IntV(1)
                  [] k = "end" -> IntV(2)
                  [] k = "strand" -> strand
                  [] k = "name" -> name
                  [] k = "score" -> score
                  [] k = "metadata" -> DictV(metadata)])

\* super().__init__(chrom, start, end, strand=strand, name=name,
\* metadata=metadata): the subtype's metadata becomes ONE keyword of Interval
SuperInit(kind, kw) ==
    IntervalInit(Arg(kw, "strand", StrV(".")), Arg(kw, "name", StrV(".")),
                 IntV(DefaultScore),
                 [k \in {"metadata"} |-> DictV(Extra(kind, kw))])

\* Exon.__init__ after super().__init__
ExonInit(kw) ==
    LET base == SuperInit("Exon", kw)
        rank == Arg(kw, "rank", None)
        frame == Arg(kw, "frame_offset", IntV(-1))
    IN  IF ~base.ok THEN base
        ELSE IF frame # None /\ ~(frame[1] = "int" /\ frame[2] \in -1..2)
        THEN Raise("ValueError")
        ELSE IF rank[1] # "int" THEN Raise("TypeError")
        ELSE Ok(Update(base.val,
                       [k \in {"rank", "frame_offset"} |->
                           IF k = "rank" THEN rank
                           ELSE IF frame = IntV(-1) THEN None ELSE frame]))

\* Transcript.__init__ after super().__init__
TranscriptInit(kw) ==
    LET base == SuperInit("Transcript", kw)
    IN  IF ~base.ok THEN base
        ELSE Ok(Update(base.val,
                   [k \in {"accession", "transcript_start", "transcript_stop",
                           "coding_start", "coding_end",
                           "coding_start_status", "coding_end_status",
                           "_exons"} |->
                       CASE k = "transcript_start" -> IntV(1)
                         [] k = "transcript_stop" -> IntV(2)
                         [] k = "_exons" -> StrV("[]")
                         [] OTHER -> Arg(kw, k, None)]))

\* kind(chrom, start, end, **kw): the instance's __dict__
New(kind, kw) ==
    CASE kind = "Interval" ->
            IntervalInit(Arg(kw, "strand", StrV(".")),
                         Arg(kw, "name", StrV(".")),
                         Arg(kw, "score", IntV(DefaultScore)),
                         Extra(kind, kw))
      [] kind = "Exon" -> ExonInit(kw)
      [] kind = "Transcript" -> TranscriptInit(kw)
      [] OTHER -> SuperInit(kind, kw)

\* the merged dictionary of get and __getitem__
Merged(dict) == Update(dict, dict["metadata"][2])

\* Interval.get(item, default)
Get(dict, item, default) == DictGet(Merged(dict), item, default)

\* Interval.__getitem__(item)
GetItem(dict, item) == DictGet(Merged(dict), item, None)

Keys == {"foo", "metadata", "score", "rank", "name", "zz"}
Values == {IntV(7), StrV("v")}

InitInterval ==
    /\ pc = "new"
    /\ IdleInterval
    /\ IdleParser /\ parsed = NoValue /\ coding = NoValue /\ clen = NoValue
    /\ IdleReader

\* kind(chrom, start, end, k=v); an Exon is also given its rank
Construct(kind, k, v) ==
    /\ pc = "new"
    /\ call' = [kind |-> kind, key |-> k, val |-> v]
    /\ obj' = New(kind, IF kind = "Exon"
                        THEN Update([x \in {"rank"} |-> IntV(1)],
                                    [x \in {k} |-> v])
                        ELSE [x \in {k} |-> v])
    /\ pc' = "built"
    /\ res' = res
    /\ UNCHANGED <<parserVars, readerVars>>

\* obj.get(k, default)
CallGet(k, default) ==
    /\ pc \in {"built", "read"}
    /\ obj.ok
    /\ res' = [op |-> "get", key |-> k, default |-> default,
               val |-> Get(obj.val, k, default)]
    /\ pc' = "read"
    /\ UNCHANGED <<obj, call, parserVars, readerVars>>

\* obj[k]
CallGetItem(k) ==
    /\ pc \in {"built", "read"}
    /\ obj.ok
    /\ res' = [op |-> "getitem", key |-> k, default |-> None,
               val |-> GetItem(obj.val, k)]
    /\ pc' = "read"
    /\ UNCHANGED <<obj, call, parserVars, readerVars>>

NextInterval ==
    \/ \E kind \in Kinds, k \in Keys \ {"zz"}, v \in Values :
           Construct(kind, k, v)
    \/ \E k \in Keys, d \in {None, StrV("dflt")} : CallGet(k, d)
    \/ \E k \in Keys : CallGetItem(k)

SpecInterval == InitInterval /\ [][NextInterval]_vars

(* C9: for an Interval or any subtype built with an extra named attribute  *)
(* k = v, get(k, default) and [k] both return v, also when k names a       *)
(* built-in field; for a key that is neither a field nor a metadata key,   *)
(* get returns the default and [k] returns None.                           *)
C9_MetadataLookup ==
    (pc = "read" /\ call.key \notin Params(call.kind)) =>
        /\ res.key = call.key => res.val = call.val
        /\ res.key = "zz" => res.val = res.default

-----------------------------------------------------------------------------
(* The reader: RefGene.__iter__, RefGene.__next__ and the two lookups      *)

\* the lines a source file is made of
ReaderFixture(acc, name, nf) ==
    [nf |-> nf, acc |-> acc, name |-> name, strand |-> <<"+">>,
     tx |-> <<Dec(0), Dec(3)>>, cds |-> <<Dec(1), Dec(2)>>,
     count |-> Dec(1), trip |-> << <<Dec(0), Dec(3), Dec(0)>> >>,
     trail |-> TRUE]

ReaderFixtures ==
    {ReaderFixture(NM1, GeneAB, NumFields),
     ReaderFixture(NM12, GeneA, NumFields),
     ReaderFixture(NR1, GeneB, NumFields),
     ReaderFixture(NM1, GeneA, NumFields - 1)}

\* RefGene.__next__ on each line text a source file can hold: ParseLine,
\* tabulated once
ParsedLine == [raw \in {Render(fx) : fx \in ReaderFixtures} |-> ParseLine(raw)]

\* a slip: an open handle is kept instead of being replaced
IterKeepOpen(h) == IF h = <<>> THEN <<0>> ELSE h

\* RefGene.__iter__: self._handle = smart_open(path), a fresh session
\* positioned before the first line
Iter(h) == <<0>>

\* a slip: a line that fails to parse is passed over and the next one read
RECURSIVE ReaderNextSkipBad(_, _)
ReaderNextSkipBad(src, h) ==
    IF h[1] >= Len(src)
    THEN [handle |-> h, stop |-> TRUE, result |-> NoValue]
    ELSE LET r == ParsedLine[src[h[1] + 1]]
         IN  IF r.ok THEN [handle |-> <<h[1] + 1>>, stop |-> FALSE,
                           result |-> r]
             ELSE ReaderNextSkipBad(src, <<h[1] + 1>>)

\* a slip: the last line of the file is taken for its end
ReaderNextStopsEarly(src, h) ==
    IF h[1] + 1 >= Len(src)
    THEN [handle |-> h, stop |-> TRUE, result |-> NoValue]
    ELSE [handle |-> <<h[1] + 1>>, stop |-> FALSE,
          result |-> ParsedLine[src[h[1] + 1]]]

\* RefGene.__next__: next(self._handle) raises StopIteration at the end of
\* the file; otherwise the line is consumed, then parsed
ReaderNext(src, h) ==
    IF h[1] >= Len(src)
    THEN [handle |-> h, stop |-> TRUE, result |-> NoValue]
    ELSE [handle |-> <<h[1] + 1>>, stop |-> FALSE,
          result |-> ParsedLine[src[h[1] + 1]]]

\* a slip: re.fullmatch in place of re.match
RECURSIVE ReFullMatch(_, _, _)
ReFullMatch(pat, str, ignorecase) ==
    IF pat = <<>> THEN str = <<>>
    ELSE IF str = <<>> THEN pat = <<"$">>
    ELSE /\ \/ Head(pat) = "."
            \/ Head(pat) = Head(str)
            \/ ignorecase /\ Fold(Head(pat)) = Fold(Head(str))
         /\ ReFullMatch(Tail(pat), Tail(str), ignorecase)

\* re.compile(pattern, flags).match(str) for a pattern of literal
\* characters, "." and a final "$": the match is anchored at the start only
RECURSIVE ReMatch(_, _, _)
ReMatch(pat, str, ignorecase) ==
    IF pat = <<>> THEN TRUE
    ELSE IF pat = <<"$">> THEN str = <<>>
    ELSE IF str = <<>> THEN FALSE
    ELSE /\ \/ Head(pat) = "."
            \/ Head(pat) = Head(str)
            \/ ignorecase /\ Fold(Head(pat)) = Fold(Head(str))
         /\ ReMatch(Tail(pat), Tail(str), ignorecase)

\* the line numbers a+1..b, in order: what a step consumed when it moved the
\* cursor from a to b
Upto(a, b) == [i \in 1..(b - a + 1) |-> a + i - 1]

Consumed(h, g) == Upto(h[1] + 1, g[1])

\* the attribute a lookup matches against
LookupKey(kind, t) == IF kind = "acc" THEN t.accession ELSE t.name

\* the body of a lookup generator from one resumption to its next yield:
\* "for transcript in self: if pattern.match(...): yield transcript".
\* reads lists the lines consumed on the way
RECURSIVE LookupScan(_, _, _, _)
LookupScan(src, h, tv, reads) ==
    LET n == ReaderNext(src, h)
    IN  IF n.stop
        THEN [handle |-> n.handle, st |-> "done",
              reads |-> reads \o Consumed(h, n.handle), yield |-> <<>>]
        ELSE IF ~n.result.ok
        THEN [handle |-> n.handle, st |-> "failed",
              reads |-> reads \o Consumed(h, n.handle), yield |-> <<>>]
        ELSE IF ReMatch(tv.pat, LookupKey(tv.kind, n.result.val), tv.ic)
        THEN [handle |-> n.handle, st |-> "running",
              reads |-> reads \o Consumed(h, n.handle),
              yield |-> <<n.result.val>>]
        ELSE LookupScan(src, n.handle, tv, reads \o Consumed(h, n.handle))

Travs == {1, 2}

IdleTrav ==
    [kind |-> "none", pat |-> <<>>, ic |-> TRUE, st |-> "idle", alone |-> TRUE,
     reads |-> <<>>, out |-> <<>>]

\* a step of traversal t on the reader disturbs every other traversal that
\* is under way
Disturb(tr, t) ==
    [u \in Travs |->
        IF u # t /\ tr[u].st = "running" THEN [tr[u] EXCEPT !.alone = FALSE]
        ELSE tr[u]]

Tag(sess, idxs) == [i \in 1..Len(idxs) |-> <<sess, idxs[i]>>]

\* "for transcript in reader:" begins: iter(reader)
StartFor(t) ==
    /\ trav[t].st = "idle"
    /\ handle' = Iter(handle)
    /\ session' = session + 1
    /\ trav' = [Disturb(trav, t) EXCEPT ![t].kind = "for", ![t].st = "running"]
    /\ UNCHANGED <<manifest, source, pc, parserVars, intervalVars>>

\* the for loop asks for its next element: next(reader); StopIteration ends
\* the loop, any other exception leaves it
NextFor(t) ==
    /\ trav[t].kind = "for" /\ trav[t].st = "running"
    /\ LET n == ReaderNext(source, handle)
           d == Disturb(trav, t)
           got == Tag(session, Consumed(handle, n.handle))
       IN  /\ handle' = n.handle
           /\ trav' =
                IF n.stop THEN [d EXCEPT ![t].st = "done", ![t].reads = @ \o got]
                ELSE IF ~n.result.ok
                THEN [d EXCEPT ![t].st = "failed", ![t].reads = @ \o got]
                ELSE [d EXCEPT ![t].reads = @ \o got,
                               ![t].out = Append(@,
                                   [at |-> <<session, n.handle[1]>>,
                                    tr |-> n.result.val])]
    /\ UNCHANGED <<manifest, source, session, pc, parserVars, intervalVars>>

\* reader.transcript_by_accession(pat, flags) or transcript_by_name: the
\* call only creates the generator
CallLookup(t, kind, pat, ic) ==
    /\ trav[t].st = "idle"
    /\ trav' = [trav EXCEPT ![t].kind = kind, ![t].pat = pat, ![t].ic = ic,
                            ![t].st = "created"]
    /\ UNCHANGED <<manifest, source, handle, session, pc, parserVars,
                   intervalVars>>

\* next() on a lookup generator: the first one enters the for loop, which
\* calls iter(self); each one runs the loop to the next match
NextLookup(t) ==
    /\ trav[t].kind \in {"acc", "name"}
    /\ trav[t].st \in {"created", "running"}
    /\ LET first == trav[t].st = "created"
           h == IF first THEN Iter(handle) ELSE handle
           sess == IF first THEN session + 1 ELSE session
           r == LookupScan(source, h, trav[t], <<>>)
           d == Disturb(trav, t)
       IN  /\ handle' = r.handle
           /\ session' = sess
           /\ trav' = [d EXCEPT
                  ![t].st = r.st,
                  ![t].reads = @ \o Tag(sess, r.reads),
                  ![t].out = IF r.yield = <<>> THEN @
                             ELSE Append(@, [at |-> <<sess, r.handle[1]>>,
                                             tr |-> r.yield[1]])]
    /\ UNCHANGED <<manifest, source, pc, parserVars, intervalVars>>

\* the lookups the callers make
Lookups ==
    {<<"acc", nm1, TRUE>>, <<"acc", nm1, FALSE>>, <<"name", genea, TRUE>>}

InitReader ==
    /\ manifest \in SeqsUpTo(ReaderFixtures, MaxLines)
    /\ source = [i \in 1..Len(manifest) |-> Render(manifest[i])]
    /\ handle = <<>>
    /\ session = 0
    /\ trav = [t \in Travs |-> IdleTrav]
    /\ pc = "reader"
    /\ IdleParser /\ parsed = NoValue /\ coding = NoValue /\ clen = NoValue
    /\ IdleInterval

NextReader ==
    \/ \E t \in Travs : StartFor(t)
    \/ \E t \in Travs : NextFor(t)
    \/ \E t \in Travs, l \in Lookups : CallLookup(t, l[1], l[2], l[3])
    \/ \E t \in Travs : NextLookup(t)

SpecReader == InitReader /\ [][NextReader]_vars

-----------------------------------------------------------------------------
(* What a test line says, read off the record it was written from *)

Numbers == -9..99

DecTable == [n \in Numbers |-> Dec(n)]

IsNumber(tok) == \E n \in Numbers : tok = DecTable[n]
NumberOf(tok) == CHOOSE n \in Numbers : tok = DecTable[n]

Complete(tr) == tr[1] # <<>> /\ tr[2] # <<>> /\ tr[3] # <<>>

WellFormedTriplet(tr) ==
    /\ IsNumber(tr[1]) /\ IsNumber(tr[2]) /\ IsNumber(tr[3])
    /\ NumberOf(tr[2]) > NumberOf(tr[1])
    /\ NumberOf(tr[3]) \in {-1, 0, 1, 2}

WellFormedHeader(fx) ==
    /\ fx.nf = NumFields
    /\ fx.strand \in {<<"+">>, <<"-">>, <<".">>}
    /\ IsNumber(fx.tx[1]) /\ IsNumber(fx.tx[2])
    /\ NumberOf(fx.tx[2]) > NumberOf(fx.tx[1])
    /\ IsNumber(fx.cds[1]) /\ IsNumber(fx.cds[2])
    /\ IsNumber(fx.count)

Parsed == pc \in {"parsed", "intervals", "length"}

Derived == pc \in {"intervals", "length"}

-----------------------------------------------------------------------------
(* C1: every region returned by coding_intervals is the part of its source *)
(* exon that overlaps the CDS: its start is max(exon.start, coding_start)  *)
(* and its end is min(exon.end, coding_end).                               *)
C1_RegionIsOverlap ==
    (Derived /\ coding.ok) =>
        \A j \in 1..Len(coding.val) :
            LET r == coding.val[j].region
                exon == coding.val[j].exon
            IN  /\ r.start = Max(exon.start, parsed.val.coding_start)
                /\ r.end = Min(exon.end, parsed.val.coding_end)

(* C2: for every Transcript the parser produces, coding_length <= length,  *)
(* where length = end - start.                                             *)
C2_CodingLengthBounded ==
    (pc = "length" /\ clen.ok) =>
        clen.val <= parsed.val.end - parsed.val.start

(* C10: for every Transcript the parser produces, reading coding_intervals *)
(* and coding_length completes without raising and every region returned   *)
(* has end > start.                                                        *)
C10_CodingNeverRaises ==
    /\ Derived =>
        /\ coding.ok
        /\ \A j \in 1..Len(coding.val) :
               coding.val[j].region.end > coding.val[j].region.start
    /\ pc = "length" => clen.ok

(* C3: when exonCount is N and the exon lists have N entries, the exon     *)
(* built from the i-th listed triplet has rank i for strand '+' or '.',    *)
(* and rank N+1-i for strand '-', also when other triplets are dropped.    *)
C3_RankByStrand ==
    (/\ Parsed /\ parsed.ok
     /\ IsNumber(fixture.count)
     /\ NumberOf(fixture.count) = Len(fixture.trip)) =>
        \A i \in 1..Len(fixture.trip) :
            Complete(fixture.trip[i]) =>
                \E j \in 1..Len(parsed.val.exons) :
                    LET e == parsed.val.exons[j]
                    IN  /\ e.start = NumberOf(fixture.trip[i][1])
                        /\ e.end = NumberOf(fixture.trip[i][2])
                        /\ e.rank = IF fixture.strand = <<"-">>
                                    THEN Len(fixture.trip) + 1 - i
                                    ELSE i

\* a minus-strand line of two exons whose second triplet was dropped: the
\* first listed exon was built with rank 2
C3_Witness ==
    /\ Parsed /\ parsed.ok
    /\ fixture.strand = <<"-">>
    /\ fixture.count = Dec(2) /\ Len(fixture.trip) = 2
    /\ Complete(fixture.trip[1]) /\ ~Complete(fixture.trip[2])
    /\ Len(parsed.val.exons) = 1
    /\ parsed.val.exons[1].rank = 2

(* C4: in a 16-field line, a triplet whose start, end or frame token is    *)
(* empty is dropped without any error; every other triplet still yields an *)
(* Exon, appended in file order, and the Transcript is produced.  The line *)
(* is otherwise well formed: its header parses, its other triplets are     *)
(* valid exons and exonCount covers the listed triplets.                   *)
C4_EmptyTripletDropped ==
    (/\ Parsed
     /\ WellFormedHeader(fixture)
     /\ NumberOf(fixture.count) >= Len(fixture.trip)
     /\ \A i \in 1..Len(fixture.trip) :
            Complete(fixture.trip[i]) => WellFormedTriplet(fixture.trip[i])) =>
        LET kept == SelectSeq(fixture.trip, Complete)
        IN  /\ parsed.ok
            /\ Len(parsed.val.exons) = Len(kept)
            /\ \A j \in 1..Len(kept) :
                   /\ parsed.val.exons[j].start = NumberOf(kept[j][1])
                   /\ parsed.val.exons[j].end = NumberOf(kept[j][2])

\* a line of two triplets, the first with an empty token and the second
\* complete: the transcript was produced with the second exon alone
C4_Witness ==
    /\ Parsed /\ parsed.ok
    /\ WellFormedHeader(fixture)
    /\ Len(fixture.trip) = 2 /\ fixture.count = Dec(2)
    /\ ~Complete(fixture.trip[1]) /\ Complete(fixture.trip[2])
    /\ Len(parsed.val.exons) = 1
    /\ parsed.val.exons[1].start = NumberOf(fixture.trip[2][1])

-----------------------------------------------------------------------------
(* What a source file says, read off the records it was written from *)

Malformed(fx) == fx.nf # NumFields

AllWellFormed == \A i \in 1..Len(manifest) : ~Malformed(manifest[i])

\* the line numbers of a sequence of reads
LinesOf(reads) == [i \in 1..Len(reads) |-> reads[i][2]]

CasePairs ==
    {<<"N", "n">>, <<"M", "m">>, <<"R", "r">>, <<"A", "a">>, <<"B", "b">>}

CaseEq(a, b) == a = b \/ <<a, b>> \in CasePairs \/ <<b, a>> \in CasePairs

\* str starts with the literal text pat
StartsWith(str, pat, anycase) ==
    /\ Len(str) >= Len(pat)
    /\ \A i \in 1..Len(pat) :
           IF anycase THEN CaseEq(str[i], pat[i]) ELSE str[i] = pat[i]

BuiltFrom(o, fx) == o.tr.accession = fx.acc /\ o.tr.name = fx.name

(* C5: when a traversal meets a line that does not split into 16 fields,   *)
(* the step fails, no Transcript is produced for that line, and the        *)
(* traversal stops there: it reads and yields nothing after that line.     *)
C5_MalformedLineStops ==
    \A t \in Travs :
        /\ \A k \in 1..Len(trav[t].out) :
               \E j \in 1..Len(trav[t].reads) :
                   /\ trav[t].reads[j] = trav[t].out[k].at
                   /\ ~Malformed(manifest[trav[t].reads[j][2]])
        /\ \A j \in 1..Len(trav[t].reads) :
               Malformed(manifest[trav[t].reads[j][2]]) =>
                   /\ trav[t].st = "failed"
                   /\ j = Len(trav[t].reads)

\* a traversal that yielded the first line, failed on the malformed second
\* line and left the well-formed third line unread
C5_Witness ==
    \E t \in Travs :
        /\ Len(manifest) = 3
        /\ ~Malformed(manifest[1]) /\ Malformed(manifest[2])
        /\ ~Malformed(manifest[3])
        /\ trav[t].st = "failed"
        /\ LinesOf(trav[t].reads) = <<1, 2>>
        /\ Len(trav[t].out) = 1

(* C6: a single traversal over n well-formed lines, undisturbed by any     *)
(* other traversal, yields exactly n Transcripts, the i-th built from the  *)
(* i-th line, and ends with the exhaustion signal; a traversal started     *)
(* afterwards yields the same sequence again from the first line.          *)
C6_FullOrderedTraversal ==
    \A t \in Travs :
        (trav[t].kind = "for" /\ trav[t].alone /\ AllWellFormed) =>
            /\ trav[t].st # "failed"
            /\ Len(trav[t].out) = Len(trav[t].reads)
            /\ Len(trav[t].out) <= Len(manifest)
            /\ \A i \in 1..Len(trav[t].out) :
                   /\ trav[t].out[i].at[2] = i
                   /\ BuiltFrom(trav[t].out[i], manifest[i])
            /\ trav[t].st = "done" => Len(trav[t].out) = Len(manifest)

\* two traversals, one after the other, both ran over the same two or more
\* lines to exhaustion and yielded the same Transcripts
C6_Witness ==
    /\ Len(manifest) >= 2
    /\ manifest[1] # manifest[2]
    /\ \A t \in Travs :
           trav[t].kind = "for" /\ trav[t].st = "done" /\ trav[t].alone
    /\ [i \in 1..Len(trav[1].out) |-> trav[1].out[i].tr]
           = [i \in 1..Len(trav[2].out) |-> trav[2].out[i].tr]
    /\ Len(trav[1].out) = Len(manifest)
    /\ trav[1].out[1].at[1] # trav[2].out[1].at[1]

\* no line of a session was read twice, by one traversal or by two
ReadOnce ==
    \A t, u \in Travs :
        \A i \in 1..Len(trav[t].reads), j \in 1..Len(trav[u].reads) :
            (trav[t].reads[i] = trav[u].reads[j]) => (t = u /\ i = j)

\* the step read the lines a+1..b of session sess, all in one traversal
ReadStep(sess, a, b) ==
    \E t \in Travs :
        /\ trav'[t].reads = trav[t].reads \o Tag(sess, Upto(a + 1, b))
        /\ \A u \in Travs \ {t} : trav'[u].reads = trav[u].reads

(* C7: starting a traversal replaces the session: the cursor is set before *)
(* the first line, every later step of any traversal reads at that shared  *)
(* cursor (an older traversal does not resume where it was), and no line   *)
(* of a session is delivered twice.                                        *)
C7_SharedCursor ==
    /\ []ReadOnce
    /\ [][/\ session' \in {session, session + 1}
          /\ session' = session + 1 => ReadStep(session', 0, handle'[1])
          /\ (session' = session /\ handle # <<>>) =>
                 ReadStep(session, handle[1], handle'[1])
          /\ (session' = session /\ handle = <<>>) =>
                 (handle' = <<>> /\ \A t \in Travs :
                                        trav'[t].reads = trav[t].reads)]_vars

\* one traversal read lines 1 and 2, a second traversal was started, and
\* the first then read line 1 of the new session and the second its line 2
C7_Witness ==
    \E t, u \in Travs :
        /\ t # u
        /\ trav[t].reads = <<<<1, 1>>, <<1, 2>>, <<2, 1>>>>
        /\ trav[u].reads = <<<<2, 2>>>>

(* C8: a lookup consumed to the end with no other traversal on the reader  *)
(* reads the whole file from its first line and yields, in file order,     *)
(* exactly the Transcripts whose accession (or name) starts with the       *)
(* pattern, ignoring case under the default flags: NM1 and NM12 both       *)
(* answer a lookup of NM1.                                                 *)
C8_LookupPrefixMatch ==
    \A t \in Travs :
        (/\ trav[t].kind \in {"acc", "name"}
         /\ trav[t].st = "done"
         /\ trav[t].alone) =>
            LET key(i) == IF trav[t].kind = "acc" THEN manifest[i].acc
                          ELSE manifest[i].name
                hits == {i \in 1..Len(manifest) :
                            StartsWith(key(i), trav[t].pat, trav[t].ic)}
                out == trav[t].out
            IN  /\ LinesOf(trav[t].reads) = Upto(1, Len(manifest))
                /\ \A j \in 1..Len(trav[t].reads) :
                       trav[t].reads[j][1] = trav[t].reads[1][1]
                /\ Len(out) = Cardinality(hits)
                /\ \A k \in 1..Len(out) :
                       /\ out[k].at[2] \in hits
                       /\ BuiltFrom(out[k], manifest[out[k].at[2]])
                       /\ k > 1 => out[k].at[2] > out[k - 1].at[2]

\* a file holding NM1 then NM12: the lookup of "nm1" under the default flags
\* ended after yielding both
C8_Witness ==
    \E t \in Travs :
        /\ trav[t].kind = "acc" /\ trav[t].pat = nm1 /\ trav[t].ic
        /\ trav[t].st = "done" /\ trav[t].alone
        /\ Len(manifest) >= 2
        /\ manifest[1].acc = NM1 /\ manifest[2].acc = NM12
        /\ Len(trav[t].out) >= 2
        /\ trav[t].out[1].tr.accession = NM1
        /\ trav[t].out[2].tr.accession = NM12

=============================================================================
